---- MODULE Spec2Model ----
(***************************************************************************)
(* TinyRayTracer: ray-sphere intersection, scene intersection with the     *)
(* checkerboard plane, the recursive CastRay and the parallel Render loop. *)
(*                                                                         *)
(* Numbers.  A float is modelled as a fixed-point number: the integer n    *)
(* stands for n / Q (Q = 1000, so the bias 1e-3 of Main.cpp is 1).         *)
(* Products and quotients are truncated to that resolution, square roots   *)
(* are floored; the IEEE values +inf, -inf and NaN are three reserved      *)
(* integers above the largest finite value FLT_MAX.                        *)
(***************************************************************************)
EXTENDS Integers, Sequences, FiniteSets, TLC

VARIABLES
    pc,      \* where the modelled call sequence stands
    args,    \* the arguments of the call under study
    ret,     \* what the last call returned
    stack,   \* the activation records of CastRay, the running call last
    obs,     \* observations: CastRay's counters, last return and last light; in
             \* Render, what the loops leave when one thread runs them in order
    framebuffer,  \* Render: the pixel colors, by index i + j * width
    writers,      \* Render: for each index, the rows whose tasks stored to it, in order
    todo,         \* Render: the rows of the parallel loop no thread has taken yet
    thr,          \* Render: each thread's row j, column i, private color and position
    ofs           \* Render: the output file: its state and the bytes written

vars == <<pc, args, ret, stack, obs, framebuffer, writers, todo, thr, ofs>>

Obs0 == [ncalls |-> 0, nleaves |-> 0, steps |-> 0, lastRet |-> <<>>, lastLight |-> <<>>]
IdleCast == stack = <<>> /\ obs = Obs0
IdleRender ==
    framebuffer = <<>> /\ writers = <<>> /\ todo = {} /\ thr = <<>> /\ ofs = <<>>
rvars == <<framebuffer, writers, todo, thr, ofs>>

---------------------------------------------------------------------------
(* float *)

Q == 1000
FLT_MAX == 2147483000
NaN == 2147483646
PosInf == 2147483647
NegInf == -2147483647

F(n) == n * Q

IsNaN(a) == a = NaN
IsInf(a) == a = PosInf \/ a = NegInf

Abs(n) == IF n < 0 THEN -n ELSE n
Sign(n) == IF n < 0 THEN -1 ELSE IF n > 0 THEN 1 ELSE 0

FNeg(a) ==
    IF IsNaN(a) THEN NaN
    ELSE IF a = PosInf THEN NegInf
    ELSE IF a = NegInf THEN PosInf
    ELSE -a

FAdd(a, b) ==
    IF IsNaN(a) \/ IsNaN(b) THEN NaN
    ELSE IF IsInf(a) THEN (IF IsInf(b) /\ b # a THEN NaN ELSE a)
    ELSE IF IsInf(b) THEN b
    ELSE a + b

FSub(a, b) == FAdd(a, FNeg(b))

FMul(a, b) ==
    IF IsNaN(a) \/ IsNaN(b) THEN NaN
    ELSE IF IsInf(a) \/ IsInf(b)
         THEN (IF a = 0 \/ b = 0 THEN NaN
               ELSE IF Sign(a) * Sign(b) > 0 THEN PosInf ELSE NegInf)
    ELSE Sign(a) * Sign(b) *
         ((Abs(a) \div Q) * Abs(b) + ((Abs(a) % Q) * Abs(b)) \div Q)

FDiv(a, b) ==
    IF IsNaN(a) \/ IsNaN(b) THEN NaN
    ELSE IF IsInf(a)
         THEN (IF IsInf(b) THEN NaN
               ELSE IF Sign(a) * (IF b < 0 THEN -1 ELSE 1) > 0 THEN PosInf ELSE NegInf)
    ELSE IF IsInf(b) THEN 0
    ELSE IF b = 0
         THEN (IF a = 0 THEN NaN ELSE IF a > 0 THEN PosInf ELSE NegInf)
    ELSE Sign(a) * Sign(b) *
         ((Abs(a) \div Abs(b)) * Q + ((Abs(a) % Abs(b)) * Q) \div Abs(b))

\* a < b, a > b: false when either side is NaN.
FLt(a, b) == ~IsNaN(a) /\ ~IsNaN(b) /\ a < b
FGt(a, b) == FLt(b, a)

\* std::min(a, b) is (b < a) ? b : a; std::max(a, b) is (a < b) ? b : a.
FMin(a, b) == IF FLt(b, a) THEN b ELSE a
FMax(a, b) == IF FLt(a, b) THEN b ELSE a

FAbs(a) == IF IsNaN(a) THEN NaN ELSE IF IsInf(a) THEN PosInf ELSE Abs(a)

SqrtHi == 1465430

\* floor(a * Q / x), computed without leaving 32 bits.
DivQ(a, x) == (a \div x) * Q + ((a % x) * Q) \div x

\* A number not below the square root of a * Q.
SqrtGuess(a) ==
    IF a <= 4000 THEN 2000
    ELSE IF a <= 250000 THEN 16000
    ELSE IF a <= 16000000 THEN 127000
    ELSE SqrtHi

\* Newton's iteration on whole numbers, from above: x is the iterate and y
\* the one after it; the first x that the iteration does not lower is the
\* floor of the square root of a * Q.
RECURSIVE SqrtNewton(_, _, _)
SqrtNewton(a, x, y) ==
    IF y >= x THEN x ELSE SqrtNewton(a, y, (y + DivQ(a, y)) \div 2)

SqrtFrom(a, x) == SqrtNewton(a, x, (x + DivQ(a, x)) \div 2)

sqrtf(a) ==
    IF IsNaN(a) \/ a = NegInf THEN NaN
    ELSE IF a = PosInf THEN PosInf
    ELSE IF a < 0 THEN NaN
    ELSE IF a = 0 THEN 0
    ELSE SqrtFrom(a, SqrtGuess(a))

---------------------------------------------------------------------------
(* Geometry.h: Vec3f *)

Vec3f(x, y, z) == [x |-> x, y |-> y, z |-> z]

VAdd(u, v) == Vec3f(FAdd(u.x, v.x), FAdd(u.y, v.y), FAdd(u.z, v.z))
VSub(u, v) == Vec3f(FSub(u.x, v.x), FSub(u.y, v.y), FSub(u.z, v.z))
VNeg(u) == Vec3f(FNeg(u.x), FNeg(u.y), FNeg(u.z))
VScale(u, f) == Vec3f(FMul(u.x, f), FMul(u.y, f), FMul(u.z, f))
Dot(u, v) == FAdd(FAdd(FMul(u.x, v.x), FMul(u.y, v.y)), FMul(u.z, v.z))
norm(u) == sqrtf(Dot(u, u))
VDiv(u, n) == Vec3f(FDiv(u.x, n), FDiv(u.y, n), FDiv(u.z, n))
normalize(u) == VDiv(u, norm(u))

VI(x, y, z) == Vec3f(F(x), F(y), F(z))

---------------------------------------------------------------------------
(* Sphere.h *)

Material(refractiveIndex, albedo, diffuseColor, specularExponent) ==
    [m_RefractiveIndex |-> refractiveIndex, m_Albedo |-> albedo,
     m_DiffuseColor |-> diffuseColor, m_SpecularExponent |-> specularExponent]

\* Material(): value-initialised fields and albedo (1, 0, 0, 0).
Material0 == Material(0, <<F(1), 0, 0, 0>>, Vec3f(0, 0, 0), 0)

Sphere(center, radius, material) ==
    [m_Center |-> center, m_Radius |-> radius, m_Material |-> material]

\* The mutant of the choice of root that forgets the exit root s2.
RayRootNoExit(b, sq) ==
    IF FGt(FSub(FNeg(b), sq), 0) THEN [hit |-> TRUE, t |-> FSub(FNeg(b), sq)]
    ELSE [hit |-> FALSE, t |-> 0]

\* Lines 36-42: s1 = -b - sqrtf(delta), s2 = -b + sqrtf(delta) and the root
\* returned, sq being sqrtf(delta).
RayRoot(b, sq) ==
    IF FGt(FSub(FNeg(b), sq), 0) THEN [hit |-> TRUE, t |-> FSub(FNeg(b), sq)]
    ELSE IF FGt(FAdd(FNeg(b), sq), 0) THEN [hit |-> TRUE, t |-> FAdd(FNeg(b), sq)]
    ELSE [hit |-> FALSE, t |-> 0]

\* Lines 34-42, delta known.
RayDelta(b, delta) ==
    IF FLt(delta, 0) THEN [hit |-> FALSE, t |-> 0] ELSE RayRoot(b, sqrtf(delta))

\* Lines 32-42, b known.
RayB(xa, b, radius) ==
    RayDelta(b, FAdd(FSub(FMul(b, b), Dot(xa, xa)), FMul(radius, radius)))

\* Lines 31-42, xa known.
RayXa(xa, direction, radius) == RayB(xa, Dot(xa, direction), radius)

\* bool Sphere::RayIntersect(origin, direction, float& t): hit is the value
\* returned, t the value left in the out parameter (meaningful when hit).
RayIntersect(sphere, origin, direction) ==
    RayXa(VSub(origin, sphere.m_Center), direction, sphere.m_Radius)

---------------------------------------------------------------------------
(* Main.cpp: Hit, Reflect, Refract, SceneIntersect *)

\* Hit(): point(), normal(), material().
Hit0 == [point |-> Vec3f(0, 0, 0), normal |-> Vec3f(0, 0, 0), material |-> Material0]

\* The mutant of Reflect that subtracts the projection once, not twice.
ReflectOnce(direction, normal) ==
    VSub(direction, VScale(normal, Dot(direction, normal)))

Reflect(direction, normal) ==
    VSub(direction, VScale(VScale(normal, F(2)), Dot(direction, normal)))

\* Lines 45-48, with n, r and c as lines 30-39 leave them.
RefractWith(direction, n, r, c) ==
    VAdd(VScale(direction, r),
         VScale(n, FSub(FMul(r, c),
                        sqrtf(FSub(F(1), FMul(FMul(r, r), FSub(F(1), FMul(c, c))))))))

\* Lines 34-48, c = -(n * direction) known.
RefractFrom(direction, normal, refractiveIndex, c) ==
    IF FLt(c, 0)
    THEN RefractWith(direction, VNeg(normal), refractiveIndex, FNeg(c))
    ELSE RefractWith(direction, normal, FDiv(F(1), refractiveIndex), c)

Refract(direction, normal, refractiveIndex) ==
    RefractFrom(direction, normal, refractiveIndex, FNeg(Dot(normal, direction)))

\* (int) of a float in range: truncation toward zero.
Trunc(a) == Sign(a) * (Abs(a) \div Q)

\* Line 78: the tile color of the checkerboard at p.
TileColor(p) ==
    IF (Trunc(FAdd(FMul(500, p.x), F(1000))) + Trunc(FMul(500, p.z))) % 2 = 1
    THEN Vec3f(F(1), F(1), F(1))
    ELSE Vec3f(F(1), 700, 300)

\* The mutant of the loop's test that keeps the last sphere hit, not the nearest.
NearerAlways(t, spheresDistance) == TRUE

\* Line 60: "&& t < spheresDistance".
Nearer(t, spheresDistance) == FLt(t, spheresDistance)

\* Lines 64-66: hitInfo for a sphere met at point.
SphereHitAt(sphere, point) ==
    [point |-> point, normal |-> normalize(VSub(point, sphere.m_Center)),
     material |-> sphere.m_Material]

\* Lines 60-67: the body of the loop, r being what RayIntersect returned.
SphereStep(sphere, origin, direction, acc, r) ==
    IF r.hit /\ Nearer(r.t, acc.spheresDistance)
    THEN [spheresDistance |-> r.t,
          hitInfo |-> SphereHitAt(sphere, VAdd(origin, VScale(direction, r.t)))]
    ELSE acc

\* Lines 56-68: the loop over spheres[i..], carrying spheresDistance and hitInfo.
RECURSIVE SphereLoop(_, _, _, _, _)
SphereLoop(spheres, origin, direction, i, acc) ==
    IF i > Len(spheres) THEN acc
    ELSE SphereLoop(spheres, origin, direction, i + 1,
                    SphereStep(spheres[i], origin, direction, acc,
                               RayIntersect(spheres[i], origin, direction)))

\* Line 73: the ray parameter of the plane y = -4.
PlaneD(origin, direction) == FDiv(FNeg(FAdd(origin.y, F(4))), direction.y)

\* Line 76: the plane hit is accepted.
PlaneAccepted(d, p, spheresDistance) ==
    /\ FGt(d, 0)
    /\ FLt(FAbs(p.x), F(10))
    /\ FLt(p.z, F(-10))
    /\ FGt(p.z, F(-30))
    /\ FLt(d, spheresDistance)

\* Line 89: std::min(spheresDistance, checkerboardDistance) < 1000.
SceneResult(spheresDistance, checkerboardDistance) ==
    FLt(FMin(spheresDistance, checkerboardDistance), F(1000))

\* Lines 76-86: the plane met at parameter d, point p.
BoardAt(loop, d, p) ==
    IF PlaneAccepted(d, p, loop.spheresDistance)
    THEN [checkerboardDistance |-> d,
          hitInfo |-> [point |-> p,
                       normal |-> Vec3f(0, F(1), 0),
                       material |-> [loop.hitInfo.material EXCEPT
                                        !.m_DiffuseColor = VScale(TileColor(p), 300)]]]
    ELSE [checkerboardDistance |-> FLT_MAX, hitInfo |-> loop.hitInfo]

\* Lines 73-86, d known.
BoardFrom(origin, direction, loop, d) ==
    BoardAt(loop, d, VAdd(origin, VScale(direction, d)))

\* Lines 71-87: the plane, loop being what the loop over spheres left.
Board(origin, direction, loop) ==
    IF FGt(FAbs(direction.y), 1)
    THEN BoardFrom(origin, direction, loop, PlaneD(origin, direction))
    ELSE [checkerboardDistance |-> FLT_MAX, hitInfo |-> loop.hitInfo]

\* Line 89 and the out parameter.
SceneEnd(loop, board) ==
    [hit |-> SceneResult(loop.spheresDistance, board.checkerboardDistance),
     hitInfo |-> board.hitInfo]

\* Lines 71-89.
SceneAfterLoop(origin, direction, loop) ==
    SceneEnd(loop, Board(origin, direction, loop))

\* bool SceneIntersect(origin, direction, spheres, Hit& hitInfo): hit is the
\* value returned, hitInfo the out parameter as the call leaves it.
SceneIntersect(origin, direction, spheres, hitInfo) ==
    SceneAfterLoop(origin, direction,
                   SphereLoop(spheres, origin, direction, 1,
                              [spheresDistance |-> FLT_MAX, hitInfo |-> hitInfo]))

---------------------------------------------------------------------------
(* Main.cpp: CastRay *)

Light(position, intensity) == [m_Position |-> position, m_Intensity |-> intensity]

Background == Vec3f(200, 500, 800)

MaxDepth == 5

Square(h) == FMul(h, h)

RECURSIVE PowN(_, _)
PowN(x, n) ==
    IF n = 0 THEN F(1)
    ELSE IF n % 2 = 0 THEN Square(PowN(x, n \div 2))
    ELSE FMul(x, PowN(x, n - 1))

\* powf(x, y) for the exponents materials carry: whole numbers >= 0.
powf(x, y) ==
    IF y = 0 THEN F(1) ELSE IF IsNaN(x) THEN NaN ELSE PowN(x, y \div Q)

\* Lines 102, 106, 115: the origin moved off the surface by 1e-3 along the
\* normal, to the side the new ray leaves on.
BiasedOrigin(dir, hitInfo) ==
    IF FLt(Dot(dir, hitInfo.normal), 0)
    THEN VSub(hitInfo.point, VScale(hitInfo.normal, 1))
    ELSE VAdd(hitInfo.point, VScale(hitInfo.normal, 1))

\* The mutant of the guard that lets depth 5 through.
DepthOkOffByOne(depth) == depth <= MaxDepth

\* Line 99: "depth < 5 &&", SceneIntersect being called only when it holds.
DepthOk(depth) == depth < MaxDepth

\* The mutant of the recursive calls that passes depth on unchanged.
ChildDepthSame(depth) == depth

\* Lines 103, 107: depth + 1.
ChildDepth(depth) == depth + 1

RayFrom(dir, hitInfo) == [origin |-> BiasedOrigin(dir, hitInfo), direction |-> dir]

\* Lines 101-102: reflectDirection and reflectOrigin.
ReflectRay(direction, hitInfo) ==
    RayFrom(normalize(Reflect(direction, hitInfo.normal)), hitInfo)

\* Lines 105-106: refractDirection and refractOrigin.
RefractRay(direction, hitInfo) ==
    RayFrom(normalize(Refract(direction, hitInfo.normal, hitInfo.material.m_RefractiveIndex)),
            hitInfo)

\* The mutant of the shadow test in which any hit along the shadow ray
\* blocks the light, the light's distance not being looked at.
InShadowAnyHit(shaddow, shadowOrigin, lightDistance) == shaddow.hit

\* Line 117: the test that ends the iteration with "continue", shaddow being
\* what SceneIntersect returned for the shadow ray.
InShadow(shaddow, shadowOrigin, lightDistance) ==
    /\ shaddow.hit
    /\ FLt(norm(VSub(shaddow.hitInfo.point, shadowOrigin)), lightDistance)

\* Lines 117-129, shaddow known.
LightAdd(light, direction, hitInfo, acc, lightDirection, lightDistance, shadowOrigin, shaddow) ==
    IF InShadow(shaddow, shadowOrigin, lightDistance)
    THEN acc
    ELSE [diffuseLightIntensity |->
             FAdd(acc.diffuseLightIntensity,
                  FMul(light.m_Intensity,
                       FMax(0, FDiv(Dot(lightDirection, hitInfo.normal),
                                    FMul(norm(lightDirection), norm(hitInfo.normal)))))),
          specularLightIntensity |->
             FAdd(acc.specularLightIntensity,
                  FMul(light.m_Intensity,
                       powf(FMax(0, Dot(Reflect(lightDirection, hitInfo.normal), direction)),
                            hitInfo.material.m_SpecularExponent)))]

\* Lines 115-129, shadowOrigin known.
LightFrom(light, direction, hitInfo, spheres, acc, lightDirection, lightDistance, shadowOrigin) ==
    LightAdd(light, direction, hitInfo, acc, lightDirection, lightDistance, shadowOrigin,
             SceneIntersect(shadowOrigin, lightDirection, spheres, Hit0))

\* Lines 115-129, lightDirection and lightDistance known.
LightToward(light, direction, hitInfo, spheres, acc, lightDirection, lightDistance) ==
    LightFrom(light, direction, hitInfo, spheres, acc, lightDirection, lightDistance,
              BiasedOrigin(lightDirection, hitInfo))

\* Lines 111-129: one iteration of the loop over lights; acc carries
\* diffuseLightIntensity and specularLightIntensity.
LightStep(light, direction, hitInfo, spheres, acc) ==
    LightToward(light, direction, hitInfo, spheres, acc,
                normalize(VSub(light.m_Position, hitInfo.point)),
                norm(VSub(light.m_Position, hitInfo.point)))

RECURSIVE LightLoop(_, _, _, _, _, _)
LightLoop(lights, i, direction, hitInfo, spheres, acc) ==
    IF i > Len(lights) THEN acc
    ELSE LightLoop(lights, i + 1, direction, hitInfo, spheres,
                   LightStep(lights[i], direction, hitInfo, spheres, acc))

\* Lines 132-138: the color returned on a hit.
Shade(material, acc, reflectColor, refractColor) ==
    VAdd(VAdd(VAdd(VScale(VScale(material.m_DiffuseColor, material.m_Albedo[1]),
                          acc.diffuseLightIntensity),
                   VScale(VScale(Vec3f(F(1), F(1), F(1)), material.m_Albedo[2]),
                          acc.specularLightIntensity)),
              VScale(reflectColor, material.m_Albedo[3])),
         VScale(refractColor, material.m_Albedo[4]))

Acc0 == [diffuseLightIntensity |-> 0, specularLightIntensity |-> 0]

\* Vec3f CastRay(origin, direction, spheres, lights, depth) as a function.
RECURSIVE CastRay(_, _, _, _, _)
RECURSIVE CastRayOn(_, _, _, _, _)
RECURSIVE CastRayAlong(_, _, _, _)

\* The values a Vec3f holds.
Colors == [x : Int, y : Int, z : Int]

\* Lines 109-138 as a function of reflectColor and refractColor, which the
\* code has in hand (lines 103, 107) before it turns to the lights.
ShadeOf(direction, spheres, lights, hitInfo) ==
    [colors \in Colors \X Colors |->
        Shade(hitInfo.material,
              LightLoop(lights, 1, direction, hitInfo, spheres, Acc0),
              colors[1], colors[2])]

\* Lines 101-138: the branch taken on a hit.
CastRayOn(direction, spheres, lights, depth, hitInfo) ==
    ShadeOf(direction, spheres, lights, hitInfo)[
        <<CastRayAlong(ReflectRay(direction, hitInfo), spheres, lights, ChildDepth(depth)),
          CastRayAlong(RefractRay(direction, hitInfo), spheres, lights, ChildDepth(depth))>>]

CastRayAlong(ray, spheres, lights, depth) ==
    CastRay(ray.origin, ray.direction, spheres, lights, depth)

\* Lines 99-141, scene being what SceneIntersect returned.
CastRayAfter(direction, spheres, lights, depth, scene) ==
    IF scene.hit THEN CastRayOn(direction, spheres, lights, depth, scene.hitInfo)
    ELSE Background

CastRay(origin, direction, spheres, lights, depth) ==
    IF DepthOk(depth)
    THEN CastRayAfter(direction, spheres, lights, depth,
                      SceneIntersect(origin, direction, spheres, Hit0))
    ELSE Background

---------------------------------------------------------------------------
(* Specification of Sphere::RayIntersect as a pure function: Init draws a  *)
(* ray and a sphere, the one action calls it.                              *)

MaxCoord == 16

\* Exact arithmetic on the inputs, in units small enough for every product:
\* positions are whole numbers, direction components multiples of 1/5 and
\* ray parameters multiples of 1/20.
D5(direction) == <<direction.x \div 200, direction.y \div 200, direction.z \div 200>>
XA1(sphere, origin) ==
    <<(origin.x - sphere.m_Center.x) \div Q, (origin.y - sphere.m_Center.y) \div Q,
      (origin.z - sphere.m_Center.z) \div Q>>
Dot3(u, v) == u[1] * v[1] + u[2] * v[2] + u[3] * v[3]

\* 25 times the discriminant of |O + tD - C|^2 = r^2 seen as a quadratic in t.
Disc25(sphere, origin, direction) ==
    LET xa == XA1(sphere, origin)
        d == D5(direction)
        r == sphere.m_Radius \div Q
    IN  Dot3(xa, d) * Dot3(xa, d) - Dot3(d, d) * (Dot3(xa, xa) - r * r)

\* The ray either misses the sphere's line of intersection or meets it at
\* parameters that are multiples of 1/20: nothing is lost to rounding.
ExactInput(sphere, origin, direction) ==
    LET xa == XA1(sphere, origin)
        d == D5(direction)
        disc == Disc25(sphere, origin, direction)
    IN  \/ disc < 0
        \/ \E m \in 0..(5 * 4 * MaxCoord) :
              /\ m * m = disc
              /\ (100 * (-Dot3(xa, d) + m)) % Dot3(d, d) = 0
              /\ (100 * (-Dot3(xa, d) - m)) % Dot3(d, d) = 0

\* O + tD lies on the sphere surface, for t a multiple of 1/20 (units of 1/100).
OnSurface(sphere, origin, direction, t) ==
    LET xa == XA1(sphere, origin)
        d == D5(direction)
        p == <<100 * xa[1] + (t \div 50) * d[1], 100 * xa[2] + (t \div 50) * d[2],
               100 * xa[3] + (t \div 50) * d[3]>>
        r == sphere.m_Radius \div 10
    IN  t % 50 = 0 /\ Dot3(p, p) = r * r

\* The positive ray parameters of the grid, far enough to pass any sphere.
PosGrid == {50 * k : k \in 1..(20 * 4 * MaxCoord)}

IsUnit(direction) == Dot(direction, direction) = F(1)

RayOrigins == {VI(x, 0, z) : x \in {0, 3, 4, 6}, z \in {-MaxCoord, -10, -6, 0}}
RayDirections ==
    {VI(0, 0, -1), VI(0, 0, 1), VI(1, 0, 0), VI(-1, 0, 0),
     Vec3f(600, 0, -800), Vec3f(-800, 0, -600), VI(0, 0, -2), VI(0, 0, 2)}
RaySpheres == {Sphere(VI(0, 0, -10), F(r), Material0) : r \in {1, 5}}

InitRay ==
    /\ IdleCast /\ IdleRender
    /\ pc = "call"
    /\ args \in {a \in [sphere : RaySpheres, origin : RayOrigins, direction : RayDirections] :
                    ExactInput(a.sphere, a.origin, a.direction)}
    /\ ret = [hit |-> FALSE, t |-> 0]

CallRayIntersect ==
    /\ pc = "call"
    /\ ret' = RayIntersect(args.sphere, args.origin, args.direction)
    /\ pc' = "done"
    /\ UNCHANGED <<args, stack, obs, rvars>>

NextRay == CallRayIntersect

SpecRay == InitRay /\ [][NextRay]_vars

SmallestPositive(sphere, origin, direction) ==
    /\ ret.hit <=> \E t \in PosGrid : OnSurface(sphere, origin, direction, t)
    /\ ret.hit =>
          /\ ret.t \in PosGrid
          /\ OnSurface(sphere, origin, direction, ret.t)
          /\ \A t \in PosGrid : t < ret.t => ~OnSurface(sphere, origin, direction, t)

\* C3 (as stated): for every ray, unit or not, RayIntersect returns true with
\* t the smallest positive parameter at which O + tD lies on the sphere, and
\* false exactly when there is no positive such parameter.
C3_AnyDirection ==
    pc = "done" => SmallestPositive(args.sphere, args.origin, args.direction)

\* C3 (amended): the same, for rays whose direction has unit length.
C3_UnitDirection ==
    (pc = "done" /\ IsUnit(args.direction))
        => SmallestPositive(args.sphere, args.origin, args.direction)

\* The origin is strictly inside the sphere and the exit root came back.
C3_WitnessInside ==
    /\ pc = "done"
    /\ IsUnit(args.direction)
    /\ Dot3(XA1(args.sphere, args.origin), XA1(args.sphere, args.origin))
          < (args.sphere.m_Radius \div Q) * (args.sphere.m_Radius \div Q)
    /\ XA1(args.sphere, args.origin) # <<0, 0, 0>>
    /\ ret.hit /\ ret.t > 0

---------------------------------------------------------------------------
(* Specification of Reflect applied twice about the same normal.           *)

MaxDir == 2

ReflectDirections ==
    {VI(x, y, z) : x \in -MaxDir..MaxDir, y \in -MaxDir..MaxDir, z \in -MaxDir..MaxDir}
UnitNormals ==
    {VI(1, 0, 0), VI(-1, 0, 0), VI(0, 1, 0), VI(0, -1, 0), VI(0, 0, 1), VI(0, 0, -1),
     Vec3f(600, 800, 0), Vec3f(0, -600, 800), Vec3f(-800, 0, -600)}

InitReflect ==
    /\ IdleCast /\ IdleRender
    /\ pc = "reflect0"
    /\ args \in [direction : ReflectDirections, normal : UnitNormals]
    /\ ret = Vec3f(0, 0, 0)

ReflectFirst ==
    /\ pc = "reflect0"
    /\ ret' = Reflect(args.direction, args.normal)
    /\ pc' = "reflect1"
    /\ UNCHANGED <<args, stack, obs, rvars>>

ReflectSecond ==
    /\ pc = "reflect1"
    /\ ret' = Reflect(ret, args.normal)
    /\ pc' = "reflect2"
    /\ UNCHANGED <<args, stack, obs, rvars>>

NextReflect == ReflectFirst \/ ReflectSecond

SpecReflect == InitReflect /\ [][NextReflect]_vars

\* C7: for every direction D and every unit normal N,
\* Reflect(Reflect(D, N), N) = D.
C7_ReflectInvolution ==
    (pc = "reflect2" /\ IsUnit(args.normal)) => ret = args.direction

\* Reflected twice about a normal that is no axis, with D neither along nor
\* across it.
C7_WitnessOblique ==
    /\ pc = "reflect2"
    /\ args.normal = Vec3f(600, 800, 0)
    /\ Dot(args.direction, args.normal) \notin {0, Dot(args.direction, args.direction)}
    /\ ret = args.direction

---------------------------------------------------------------------------
(* Specification of SceneIntersect as a pure function.                     *)

MaxSceneSpheres == 2

ivory == Material(F(1), <<600, 300, 100, 0>>, Vec3f(400, 400, 300), F(50))
glass == Material(1500, <<0, 500, 100, 800>>, Vec3f(600, 700, 800), F(125))
redRubber == Material(F(1), <<900, 100, 0, 0>>, Vec3f(300, 100, 100), F(10))
mirror == Material(F(1), <<0, F(10), 800, 0>>, Vec3f(F(1), F(1), F(1)), F(1425))

SeqsUpTo(S, n) == UNION {[1..k -> S] : k \in 0..n}

SceneSpheres ==
    {Sphere(VI(0, 0, -15), F(2), ivory), Sphere(VI(0, -8, -15), F(2), mirror),
     Sphere(VI(0, 0, -1005), F(2), glass), Sphere(VI(0, 0, -20), F(3), redRubber)}
SceneOrigins == {VI(0, 0, 0), VI(0, 3, -15), VI(2, 3, -15), VI(3, 3, -15), VI(0, 8, 0)}
SceneDirections ==
    {VI(0, 0, -1), VI(0, -1, 0), VI(0, 1, 0), Vec3f(0, 1, -1000), Vec3f(0, -600, -800)}

InitScene ==
    /\ IdleCast /\ IdleRender
    /\ pc = "scene0"
    /\ args \in [origin : SceneOrigins, direction : SceneDirections,
                 spheres : SeqsUpTo(SceneSpheres, MaxSceneSpheres)]
    /\ ret = [hit |-> FALSE, hitInfo |-> Hit0]

CallSceneIntersect ==
    /\ pc = "scene0"
    /\ ret' = SceneIntersect(args.origin, args.direction, args.spheres, Hit0)
    /\ pc' = "scene1"
    /\ UNCHANGED <<args, stack, obs, rvars>>

NextScene == CallSceneIntersect

SpecScene == InitScene /\ [][NextScene]_vars

\* What the scene is, stated over the set of surfaces and not by the loop.
MinOf(S) == CHOOSE m \in S : \A x \in S : m <= x

HitSpheres(origin, direction, spheres) ==
    {i \in DOMAIN spheres : RayIntersect(spheres[i], origin, direction).hit}

NearestSphereDistance(origin, direction, spheres) ==
    MinOf({RayIntersect(spheres[i], origin, direction).t :
              i \in HitSpheres(origin, direction, spheres)} \cup {FLT_MAX})

\* The plane y = -4 is met at d > 0 inside the tile |x| < 10, -30 < z < -10.
PlaneMet(origin, direction) ==
    /\ Abs(direction.y) > 1
    /\ LET d == PlaneD(origin, direction)
           p == VAdd(origin, VScale(direction, d))
       IN  d > 0 /\ Abs(p.x) < F(10) /\ p.z < F(-10) /\ p.z > F(-30)

AcceptedPlaneDistance(origin, direction, spheres) ==
    IF /\ PlaneMet(origin, direction)
       /\ PlaneD(origin, direction) < NearestSphereDistance(origin, direction, spheres)
    THEN PlaneD(origin, direction)
    ELSE FLT_MAX

\* The checkerboard's own material: Material() with the dimmed tile color.
PlaneHit(origin, direction) ==
    LET p == VAdd(origin, VScale(direction, PlaneD(origin, direction)))
    IN  [point |-> p, normal |-> Vec3f(0, F(1), 0),
         material |-> [Material0 EXCEPT !.m_DiffuseColor = VScale(TileColor(p), 300)]]

SphereHit(origin, direction, sphere) ==
    LET point == VAdd(origin, VScale(direction, RayIntersect(sphere, origin, direction).t))
    IN  [point |-> point, normal |-> normalize(VSub(point, sphere.m_Center)),
         material |-> sphere.m_Material]

\* The hits of the surfaces that are nearest along the ray.
NearestSurfaceHits(origin, direction, spheres) ==
    LET ds == NearestSphereDistance(origin, direction, spheres)
        dp == AcceptedPlaneDistance(origin, direction, spheres)
    IN  {SphereHit(origin, direction, spheres[i]) :
            i \in {j \in HitSpheres(origin, direction, spheres) :
                      /\ RayIntersect(spheres[j], origin, direction).t = ds
                      /\ ds <= dp}}
        \cup (IF dp < ds THEN {PlaneHit(origin, direction)} ELSE {})

\* C4: when SceneIntersect reports a hit, the point, normal and material of
\* the returned Hit all belong to the globally nearest surface among the
\* spheres and the checkerboard plane.
C4_NearestSurface ==
    (pc = "scene1" /\ ret.hit)
        => ret.hitInfo \in NearestSurfaceHits(args.origin, args.direction, args.spheres)

\* C8: whenever the plane hit is accepted, the returned material has zero
\* specular, reflection and refraction weights and the tile color times 0.3
\* as its diffuse color, whatever spheres lie farther along the ray.
C8_PlaneMaterial ==
    (pc = "scene1"
        /\ AcceptedPlaneDistance(args.origin, args.direction, args.spheres) < FLT_MAX)
        => /\ ret.hitInfo.material.m_Albedo[2] = 0
           /\ ret.hitInfo.material.m_Albedo[3] = 0
           /\ ret.hitInfo.material.m_Albedo[4] = 0
           /\ ret.hitInfo.material.m_DiffuseColor
                 = VScale(TileColor(ret.hitInfo.point), 300)

\* C9: SceneIntersect returns true iff min(nearest sphere distance, accepted
\* plane distance) < 1000; with no sphere and |direction.y| <= 1e-3 it
\* returns false.
C9_HitIffWithinCutoff ==
    pc = "scene1" =>
        /\ ret.hit <=>
              MinOf({NearestSphereDistance(args.origin, args.direction, args.spheres),
                     AcceptedPlaneDistance(args.origin, args.direction, args.spheres)})
                 < F(1000)
        /\ (Len(args.spheres) = 0 /\ Abs(args.direction.y) <= 1) => ~ret.hit

\* A sphere is met, nearer than anything else, but beyond the cutoff.
C9_WitnessBeyondCutoff ==
    /\ pc = "scene1"
    /\ ~ret.hit
    /\ NearestSphereDistance(args.origin, args.direction, args.spheres) < FLT_MAX
    /\ Len(args.spheres) = 2

---------------------------------------------------------------------------
(* Specification of CastRay as the calls it makes: one activation record   *)
(* per call, the steps of the running call as actions.  The scenes lie on  *)
(* the line x = 0, z = -15, where every ray stays on the line and the      *)
(* arithmetic is exact.                                                    *)

MaxCastSpheres == 2
MaxLights == 2
MaxStartDepth == 6

OnLine(y) == VI(0, y, -15)

CastSpheres ==
    {Sphere(OnLine(2), F(2), glass), Sphere(OnLine(-8), F(2), mirror),
     Sphere(OnLine(1010), F(2), redRubber)}
\* Five spheres around one center: a ray from the center meets a surface at
\* every depth.
NestedSpheres == [k \in 1..5 |-> Sphere(OnLine(7), F(k), glass)]
\* The lights of a scene are the first lights of this list.
CastLights ==
    <<Light(OnLine(-5), 1500), Light(OnLine(1100), 1700), Light(OnLine(30), 1800),
      Light(OnLine(12), 1200)>>
Prefixes(q, n) == {SubSeq(q, 1, k) : k \in 0..(IF n < Len(q) THEN n ELSE Len(q))}
CastOrigins == {OnLine(7), OnLine(-5)}
CastDirections == {VI(0, 1, 0), VI(0, -1, 0)}

Frame(origin, direction, depth) ==
    [origin |-> origin, direction |-> direction, depth |-> depth, at |-> "enter",
     hitInfo |-> Hit0, reflectColor |-> Vec3f(0, 0, 0), refractColor |-> Vec3f(0, 0, 0),
     i |-> 1, acc |-> Acc0, nrec |-> 0, nlit |-> 0]

Top == stack[Len(stack)]
SetTop(f) == [stack EXCEPT ![Len(stack)] = f]

Counted(depth) ==
    [obs EXCEPT !.ncalls = @ + 1,
                !.nleaves = @ + (IF depth = MaxDepth THEN 1 ELSE 0),
                !.steps = @ + 1]

InitCast ==
    /\ IdleRender
    /\ pc = "cast"
    /\ args \in [origin : CastOrigins, direction : CastDirections,
                 depth : 0..MaxStartDepth,
                 spheres : SeqsUpTo(CastSpheres, MaxCastSpheres) \cup {NestedSpheres},
                 lights : Prefixes(CastLights, MaxLights)]
    /\ ret = Vec3f(0, 0, 0)
    /\ stack = <<Frame(args.origin, args.direction, args.depth)>>
    /\ obs = [Obs0 EXCEPT !.ncalls = 1,
                          !.nleaves = IF args.depth = MaxDepth THEN 1 ELSE 0]

\* "return color": the record of the running call goes, the color reaches
\* the caller's reflectColor or refractColor, or is the result of the run.
Return(color) ==
    LET f == Top
        rest == SubSeq(stack, 1, Len(stack) - 1)
        caller == stack[Len(stack) - 1]
    IN  /\ obs' = [obs EXCEPT !.steps = @ + 1,
                              !.lastRet = <<[origin |-> f.origin, direction |-> f.direction,
                                             depth |-> f.depth, color |-> color,
                                             nrec |-> f.nrec, nlit |-> f.nlit]>>]
        /\ IF Len(stack) = 1
           THEN /\ stack' = <<>>
                /\ ret' = color
                /\ pc' = "castDone"
           ELSE /\ stack' =
                      [rest EXCEPT ![Len(rest)] =
                          IF caller.at = "waitReflect"
                          THEN [caller EXCEPT !.reflectColor = color, !.at = "refract"]
                          ELSE [caller EXCEPT !.refractColor = color, !.at = "lights"]]
                /\ UNCHANGED <<ret, pc>>
        /\ UNCHANGED <<args, rvars>>

\* Lines 99, 141: the guard fails and the background color is returned.
CastBackground ==
    /\ pc = "cast" /\ Top.at = "enter"
    /\ ~(/\ DepthOk(Top.depth)
         /\ SceneIntersect(Top.origin, Top.direction, args.spheres, Hit0).hit)
    /\ Return(Background)

\* The guard holds for what SceneIntersect returned: hitInfo is kept.
Enter(scene) ==
    /\ scene.hit
    /\ stack' = SetTop([Top EXCEPT !.hitInfo = scene.hitInfo, !.at = "reflect"])

\* Line 99: the guard holds.
CastHit ==
    /\ pc = "cast" /\ Top.at = "enter"
    /\ DepthOk(Top.depth)
    /\ Enter(SceneIntersect(Top.origin, Top.direction, args.spheres, Hit0))
    /\ obs' = [obs EXCEPT !.steps = @ + 1]
    /\ UNCHANGED <<pc, args, ret, rvars>>

\* A recursive call: the caller waits, the callee's record is added.
Call(ray, depth, wait) ==
    /\ stack' = Append(SetTop([Top EXCEPT !.at = wait, !.nrec = @ + 1]),
                       Frame(ray.origin, ray.direction, depth))
    /\ obs' = Counted(depth)

\* Lines 101-103: the recursive call for the reflected ray.
CastReflect ==
    /\ pc = "cast" /\ Top.at = "reflect"
    /\ Call(ReflectRay(Top.direction, Top.hitInfo), ChildDepth(Top.depth), "waitReflect")
    /\ UNCHANGED <<pc, args, ret, rvars>>

\* Lines 105-107: the recursive call for the refracted ray.
CastRefract ==
    /\ pc = "cast" /\ Top.at = "refract"
    /\ Call(RefractRay(Top.direction, Top.hitInfo), ChildDepth(Top.depth), "waitRefract")
    /\ UNCHANGED <<pc, args, ret, rvars>>

\* The sums after the iteration for lights[i] are acc.
Lit(acc) ==
    /\ stack' = SetTop([Top EXCEPT !.i = @ + 1, !.acc = acc, !.nlit = @ + 1])
    /\ obs' = [obs EXCEPT !.steps = @ + 1,
                          !.lastLight = <<[light |-> args.lights[Top.i],
                                           direction |-> Top.direction,
                                           hitInfo |-> Top.hitInfo,
                                           before |-> Top.acc, after |-> acc]>>]

\* Lines 109-130: one iteration of the loop over lights.
CastLight ==
    /\ pc = "cast" /\ Top.at = "lights" /\ Top.i <= Len(args.lights)
    /\ Lit(LightStep(args.lights[Top.i], Top.direction, Top.hitInfo, args.spheres, Top.acc))
    /\ UNCHANGED <<pc, args, ret, rvars>>

\* Lines 132-138: the loop is over, the shaded color is returned.
CastShade ==
    /\ pc = "cast" /\ Top.at = "lights" /\ Top.i > Len(args.lights)
    /\ Return(Shade(Top.hitInfo.material, Top.acc, Top.reflectColor, Top.refractColor))

NextCast ==
    \/ CastBackground
    \/ CastHit
    \/ CastReflect
    \/ CastRefract
    \/ CastLight
    \/ CastShade

SpecCast == InitCast /\ [][NextCast]_vars

\* The calls and the function agree on the color of the ray.
CastAgrees ==
    pc = "castDone" =>
        ret = CastRay(args.origin, args.direction, args.spheres, args.lights, args.depth)

\* The running call is at a step it can take: it is not waiting for a call
\* that is not there.
CanStep == stack # <<>> /\ Top.at \in {"enter", "reflect", "refract", "lights"}

\* The most calls a call at the given depth can cause, itself included.
MaxCalls(depth) == IF depth >= MaxDepth THEN 1 ELSE 2^(MaxDepth - depth + 1) - 1

\* C1: CastRay terminates: every recursive call is made with depth + 1, no
\* call with depth >= 5 calls further, and a primary ray (depth 0) causes at
\* most 2^5 = 32 evaluations at depth 5.  Termination is the bound on the
\* steps taken together with a step being possible until the first call
\* has returned.
C1_BoundedRecursion ==
    /\ \A k \in 2..Len(stack) : stack[k].depth = stack[k - 1].depth + 1
    /\ \A k \in 1..Len(stack) :
          stack[k].depth >= MaxDepth => (k = Len(stack) /\ stack[k].nrec = 0)
    /\ args.depth = 0 => obs.nleaves <= 32
    /\ obs.ncalls <= MaxCalls(args.depth)
    /\ obs.steps <= MaxCalls(args.depth) * (4 + Len(args.lights))
    /\ pc = "cast" => CanStep

\* A primary ray whose every call down to depth 4 met a surface.
C1_WitnessFullTree ==
    pc = "castDone" /\ args.depth = 0 /\ obs.nleaves = 32 /\ obs.ncalls = 63

\* C2: CastRay returns exactly the background color (0.2, 0.5, 0.8) whenever
\* depth >= 5, whatever the scene, and whenever SceneIntersect reports no
\* hit; it then has made no recursive call and has run no iteration of the
\* loop over lights.
C2_BackgroundBaseCase ==
    obs.lastRet # <<>> =>
        LET r == obs.lastRet[1]
        IN  (\/ r.depth >= MaxDepth
             \/ ~SceneIntersect(r.origin, r.direction, args.spheres, Hit0).hit)
                => /\ r.color = Vec3f(200, 500, 800)
                   /\ r.nrec = 0
                   /\ r.nlit = 0

\* A call at depth 5 whose ray meets a surface, in a scene with lights.
C2_WitnessDepthCutoff ==
    /\ obs.lastRet # <<>>
    /\ obs.lastRet[1].depth = MaxDepth
    /\ SceneIntersect(obs.lastRet[1].origin, obs.lastRet[1].direction,
                      args.spheres, Hit0).hit
    /\ Len(args.lights) > 0
    /\ Len(stack) > 0

\* The light of the last iteration as the claim sees it: the distance from P
\* to the light, and the distance along the shadow ray, from the biased
\* origin, to the nearest surface (FLT_MAX when there is none).
LightDistanceOf(l) == norm(VSub(l.light.m_Position, l.hitInfo.point))
LightDirectionOf(l) == normalize(VSub(l.light.m_Position, l.hitInfo.point))
NearestOnShadowRay(l) ==
    LET o == BiasedOrigin(LightDirectionOf(l), l.hitInfo)
    IN  MinOf({NearestSphereDistance(o, LightDirectionOf(l), args.spheres),
               AcceptedPlaneDistance(o, LightDirectionOf(l), args.spheres)})

\* The sums with the light's diffuse and specular terms added.
WithTerms(l) ==
    [diffuseLightIntensity |->
        l.before.diffuseLightIntensity
            + FMul(l.light.m_Intensity,
                   FMax(0, Dot(LightDirectionOf(l), l.hitInfo.normal))),
     specularLightIntensity |->
        l.before.specularLightIntensity
            + FMul(l.light.m_Intensity,
                   powf(FMax(0, Dot(Reflect(LightDirectionOf(l), l.hitInfo.normal),
                                    l.direction)),
                        l.hitInfo.material.m_SpecularExponent))]

\* C5 (as stated): a light adds nothing to the two sums if the shadow ray
\* meets a surface nearer than the light, and adds its diffuse and specular
\* terms otherwise.
C5_ShadowAnySurface ==
    obs.lastLight # <<>> =>
        LET l == obs.lastLight[1]
        IN  l.after = IF NearestOnShadowRay(l) < LightDistanceOf(l)
                      THEN l.before
                      ELSE WithTerms(l)

\* C5 (amended): a light adds nothing if the shadow ray meets a surface
\* nearer than the light and nearer than 1000, the distance at which
\* SceneIntersect stops reporting hits, and adds its terms otherwise.
C5_ShadowWithinCutoff ==
    obs.lastLight # <<>> =>
        LET l == obs.lastLight[1]
        IN  l.after = IF /\ NearestOnShadowRay(l) < LightDistanceOf(l)
                         /\ NearestOnShadowRay(l) < F(1000)
                      THEN l.before
                      ELSE WithTerms(l)

\* A light that would add to both sums is blocked by a sphere.
C5_WitnessBlocked ==
    /\ obs.lastLight # <<>>
    /\ LET l == obs.lastLight[1]
       IN  /\ NearestOnShadowRay(l) < LightDistanceOf(l)
           /\ NearestOnShadowRay(l)
                 = NearestSphereDistance(BiasedOrigin(LightDirectionOf(l), l.hitInfo),
                                         LightDirectionOf(l), args.spheres)
           /\ WithTerms(l).diffuseLightIntensity > l.before.diffuseLightIntensity
           /\ l.after = l.before

(***************************************************************************)
(* Render and main (Main.cpp 144-205).  The rows of the image are the      *)
(* iterations of the "omp parallel for" loop: a thread of the team takes   *)
(* any row not yet taken, which covers every schedule, and works through   *)
(* its pixels; computing a pixel's color and storing it are two steps, so  *)
(* the stores of different threads interleave in every order.  The file is *)
(* touched after the barrier that ends the parallel loop.  The image is    *)
(* width x height pixels with small width and height.                      *)
(***************************************************************************)
width == 2
height == 2
NumThreads == 2

\* tan(fov / 2.0), where "const int fov = M_PI / 2.0" truncates 1.5707... to
\* 1: tan(0.5) = 0.5463...
TanHalfFov == 546

Rows == 0..(height - 1)
Indices == 0..(width * height - 1)

MainSpheres ==
    <<Sphere(Vec3f(F(-3), 0, F(-16)), F(2), ivory),
      Sphere(Vec3f(F(-1), -1500, F(-12)), F(2), glass),
      Sphere(Vec3f(1500, -500, F(-18)), F(3), redRubber),
      Sphere(Vec3f(F(7), F(5), F(-18)), F(4), mirror)>>

MainLights ==
    <<Light(Vec3f(F(-20), F(20), F(20)), 1500),
      Light(Vec3f(F(30), F(50), F(-25)), 1800),
      Light(Vec3f(F(30), F(20), F(30)), 1700)>>

\* float x = (2 * (i + 0.5) / (float)width - 1) * tan(fov / 2.0) * width / (float)height
PixelX(i) ==
    FDiv(FMul(FMul(FSub(FDiv(F(2 * i + 1), F(width)), F(1)), TanHalfFov), F(width)),
         F(height))

\* float y = -(2 * (j + 0.5) / (float)height - 1) * tan(fov / 2.0)
PixelY(j) == FNeg(FMul(FSub(FDiv(F(2 * j + 1), F(height)), F(1)), TanHalfFov))

ViewDirection(i, j) == normalize(Vec3f(PixelX(i), PixelY(j), F(-1)))

PixelIndexNoStride(i, j) == i + j
PixelIndex(i, j) == i + j * width

\* CastRay(Vec3f(0, 0, 0), viewDirection, spheres, lights), depth defaulted to 0
PixelColor(i, j, spheres, lights) ==
    CastRay(Vec3f(0, 0, 0), ViewDirection(i, j), spheres, lights, 0)

\* std::vector<Vec3f> framebuffer(width * height) : value-initialized elements
Framebuffer0 == [idx \in Indices |-> Vec3f(0, 0, 0)]

IdleThread == [at |-> "idle", j |-> 0, i |-> 0, color |-> Vec3f(0, 0, 0)]
Ofs0 == [state |-> "unopened", header |-> <<>>, bytes |-> <<>>, i |-> 0]

\* What one thread running the two loops in the order of the source leaves at
\* an index: the color of the last pixel (i, j), rows first, stored there.
StoresTo(idx) == {p \in (0..(width - 1)) \X Rows : p[1] + p[2] * width = idx}
LastStore(S) == CHOOSE p \in S : \A q \in S : q[2] < p[2] \/ (q[2] = p[2] /\ q[1] <= p[1])
SequentialOn(S) ==
    IF S = {} THEN Vec3f(0, 0, 0)
    ELSE PixelColor(LastStore(S)[1], LastStore(S)[2], args.spheres, args.lights)
Sequential(idx) == SequentialOn(StoresTo(idx))

\* main() has built spheres and lights and is about to call Render (line 204).
InitRender ==
    /\ stack = <<>>
    /\ pc = "main"
    /\ args \in [spheres : {MainSpheres}, lights : {MainLights}, nthreads : 1..NumThreads]
    /\ ret = <<>>
    /\ obs = Obs0
    /\ framebuffer = <<>>
    /\ writers = <<>>
    /\ todo = {}
    /\ thr = <<>>
    /\ ofs = Ofs0

\* Lines 146-152: the framebuffer is allocated and the team of threads is
\* formed; obs keeps what one thread running the loops in order would leave.
CallRender ==
    /\ pc = "main"
    /\ pc' = "loop"
    /\ framebuffer' = Framebuffer0
    /\ writers' = [idx \in Indices |-> <<>>]
    /\ todo' = Rows
    /\ thr' = [t \in 1..args.nthreads |-> IdleThread]
    /\ obs' = [sequential |-> [idx \in Indices |-> Sequential(idx)]]
    /\ UNCHANGED <<args, ret, stack, ofs>>

\* A thread of the team starts an iteration of "for (size_t j = 0; j < height; j++)".
TakeRow(t) ==
    /\ thr[t].at = "idle"
    /\ \E j \in todo :
          /\ todo' = todo \ {j}
          /\ thr' = [thr EXCEPT ![t] = [at |-> IF 0 < width THEN "pixel" ELSE "idle",
                                        j |-> j, i |-> 0, color |-> Vec3f(0, 0, 0)]]
    /\ UNCHANGED <<pc, args, ret, stack, obs, framebuffer, writers, ofs>>

\* The right-hand side of line 160 is evaluated with the thread's own i, j.
ComputePixel(t) ==
    /\ thr[t].at = "pixel"
    /\ thr' = [thr EXCEPT ![t].at = "store",
                          ![t].color = PixelColor(thr[t].i, thr[t].j, args.spheres,
                                                  args.lights)]
    /\ UNCHANGED <<pc, args, ret, stack, obs, framebuffer, writers, todo, ofs>>

\* framebuffer[i + j * width] = ... ; i++ ; the row ends when i reaches width.
StorePixel(t) ==
    /\ thr[t].at = "store"
    /\ framebuffer' = [framebuffer EXCEPT ![PixelIndex(thr[t].i, thr[t].j)] = thr[t].color]
    /\ writers' = [writers EXCEPT ![PixelIndex(thr[t].i, thr[t].j)] = Append(@, thr[t].j)]
    /\ thr' = [thr EXCEPT ![t].i = @ + 1,
                          ![t].at = IF thr[t].i + 1 < width THEN "pixel" ELSE "idle"]
    /\ UNCHANGED <<pc, args, ret, stack, obs, todo, ofs>>

\* The implicit barrier at the end of the parallel loop: every iteration has
\* been run to its end by its thread.
LoopDoneNoWait == todo = {}
LoopDone == todo = {} /\ \A t \in DOMAIN thr : thr[t].at = "idle"

\* ofs.open("outputs/image.ppm", out | binary)
OpenFile ==
    /\ pc = "loop"
    /\ LoopDone
    /\ ofs' = [ofs EXCEPT !.state = "open"]
    /\ pc' = "header"
    /\ UNCHANGED <<args, ret, stack, obs, framebuffer, writers, todo, thr>>

\* ofs << "P6\n" << width << " " << height << "\n255\n"
WriteHeader ==
    /\ pc = "header"
    /\ ofs' = [ofs EXCEPT !.header = <<"P6", width, height, 255>>, !.i = 0]
    /\ pc' = "pixels"
    /\ UNCHANGED <<args, ret, stack, obs, framebuffer, writers, todo, thr>>

\* (char)(255 * std::max(0.0f, std::min(1.0f, c)))
Byte(c) == Trunc(FMul(F(255), FMax(0, FMin(F(1), c))))
PixelBytes(color) == <<Byte(color.x), Byte(color.y), Byte(color.z)>>

\* One pass of "for (size_t i = 0; i < width * height; i++)": three bytes.
WritePixel ==
    /\ pc = "pixels"
    /\ ofs.i < width * height
    /\ ofs' = [ofs EXCEPT !.bytes = @ \o PixelBytes(framebuffer[ofs.i]), !.i = @ + 1]
    /\ UNCHANGED <<pc, args, ret, stack, obs, framebuffer, writers, todo, thr>>

\* ofs.close()
CloseFile ==
    /\ pc = "pixels"
    /\ ofs.i >= width * height
    /\ ofs' = [ofs EXCEPT !.state = "closed"]
    /\ pc' = "rendered"
    /\ UNCHANGED <<args, ret, stack, obs, framebuffer, writers, todo, thr>>

NextRender ==
    \/ CallRender
    \/ \E t \in DOMAIN thr : TakeRow(t)
    \/ \E t \in DOMAIN thr : ComputePixel(t)
    \/ \E t \in DOMAIN thr : StorePixel(t)
    \/ OpenFile
    \/ WriteHeader
    \/ WritePixel
    \/ CloseFile

SpecRender == InitRender /\ [][NextRender]_vars

Active == {t \in DOMAIN thr : thr[t].at # "idle"}

\* C6: under every interleaving of the threads each framebuffer index
\* i + j * width is stored to at most once while the loop runs, and only by the
\* task of its own row j with the color the one-thread run gives that index;
\* once the loop is over every index has been stored to exactly once and the
\* framebuffer equals the one-thread result.
C6_EachIndexOnce ==
    pc # "main" =>
        /\ \A idx \in Indices :
              /\ Len(writers[idx]) <= 1
              /\ writers[idx] # <<>> =>
                    /\ writers[idx] = <<idx \div width>>
                    /\ framebuffer[idx] = obs.sequential[idx]
        /\ LoopDone =>
              /\ \A idx \in Indices : Len(writers[idx]) = 1
              /\ framebuffer = obs.sequential

\* Two threads are inside their rows and a later index has been stored to
\* while an earlier one has not, an order the one-thread run never takes;
\* the stored colors are not all the same.
C6_WitnessOutOfOrder ==
    /\ pc = "loop"
    /\ Cardinality(Active) >= 2
    /\ \E lo, hi \in Indices : lo < hi /\ writers[lo] = <<>> /\ writers[hi] # <<>>
    /\ \E a, b \in Indices :
          writers[a] # <<>> /\ writers[b] # <<>> /\ framebuffer[a] # framebuffer[b]

RECURSIVE FileBytes(_, _)
FileBytes(fb, n) == IF n = 0 THEN <<>> ELSE FileBytes(fb, n - 1) \o PixelBytes(fb[n - 1])

\* C10: the file is untouched until every pixel task has completed (all rows
\* taken, no thread inside a row, every index stored to); the header comes
\* before the pixels, and the bytes written are those of the framebuffer's
\* pixels 0 .. ofs.i - 1 in index order, each once.
C10_FileAfterAllPixels ==
    /\ ofs # Ofs0 =>
          /\ pc \notin {"main", "loop"}
          /\ LoopDone
          /\ \A idx \in Indices : Len(writers[idx]) = 1
    /\ ofs.state = "unopened" => ofs = Ofs0
    /\ ofs.bytes # <<>> => ofs.header = <<"P6", width, height, 255>>
    /\ ofs.i \in 0..(width * height)
    /\ ofs.bytes = (IF ofs.i = 0 THEN <<>> ELSE FileBytes(framebuffer, ofs.i))
    /\ ofs.state = "closed" => ofs.i = width * height

\* The file has been closed with the whole image in it, after a loop run by
\* a team of more than one thread; the image is not of one color.
C10_WitnessFileClosed ==
    /\ ofs.state = "closed"
    /\ Len(ofs.bytes) = 3 * width * height
    /\ args.nthreads >= 2
    /\ \E k \in 1..Len(ofs.bytes) : ofs.bytes[k] # ofs.bytes[1]

====
